---- MODULE Spec2Model ----
(***************************************************************************)
(* Preprocessing of Sources/CFreeTDS/include/CFreeTDS.h.                   *)
(*                                                                         *)
(* The header is a shim: an include guard, a #pragma once, and a platform  *)
(* conditional holding two #include directives per branch.  The model is   *)
(* the C preprocessor working through the header one directive at a time,  *)
(* inside a translation unit that includes the header several times and    *)
(* also includes the FreeTDS headers directly.  The file system (which     *)
(* FreeTDS headers are installed where), the platform macro and whether    *)
(* the compiler honours #pragma once are the environment: every            *)
(* combination is an initial state.                                        *)
(***************************************************************************)
EXTENDS Naturals, Sequences, FiniteSets

\* How many times the translation unit includes CFreeTDS.h.
MaxIncludes == 3
\* How many times the translation unit includes a FreeTDS header directly.
MaxOther == 2

VARIABLES
    fs,            \* the installed header files: a set of [dir, name]
    macros,        \* the macros defined so far
    pragmaOnce,    \* whether this compiler honours #pragma once
    onceMarked,    \* CFreeTDS.h has been marked include-once
    copyDir,       \* the directory hardcoded in the Apple branch of this copy
    pc,            \* 0: in the translation unit; 1..14: line of CFreeTDS.h
    trace,         \* the lines of CFreeTDS.h processed, in order
    included,      \* the files opened by #include: [file, line], line 0 = the unit
    probed,        \* the paths the preprocessor tried to open: [file, line]
    decls,         \* the declarations visible to the consumer
    diag,          \* fatal diagnostics: [line, name]; compilation stops at the first
    shimIncludes,  \* #include "CFreeTDS.h" directives processed by the unit
    otherIncludes  \* direct #include <sybdb.h>/<sybfront.h> processed by the unit

vars == <<fs, macros, pragmaOnce, onceMarked, copyDir, pc, trace, included,
          probed, decls, diag, shimIncludes, otherIncludes>>

----------------------------------------------------------------------------
(* The names in the header *)

Guard == "CFREETDS_H"
Apple == "__APPLE__"
SybDb == "sybdb.h"
SybFront == "sybfront.h"
Headers == {SybDb, SybFront}

\* The directory of the two quoted includes of the Apple branch.
HomebrewDir == "/usr/local/opt/freetds/include"
\* The directory the other copy of the header hardcodes instead.
HomebrewDirOther == "/opt/homebrew/opt/freetds/include"

\* The directories <...> is searched in, in order.
SearchPath == <<"/usr/local/include", "/usr/include">>

Dirs == {HomebrewDir, HomebrewDirOther} \cup {SearchPath[i] : i \in 1..Len(SearchPath)}
Files == [dir : Dirs, name : Headers]
File(d, n) == [dir |-> d, name |-> n]
NotFound == [dir |-> "", name |-> ""]

----------------------------------------------------------------------------
(* Include resolution *)

\* #include <name>: the first directory of the search path that holds it.
RECURSIVE AngleFrom(_, _, _)
AngleFrom(i, n, files) ==
    IF i > Len(SearchPath) THEN NotFound
    ELSE IF File(SearchPath[i], n) \in files THEN File(SearchPath[i], n)
    ELSE AngleFrom(i + 1, n, files)

\* Variant: only the first directory of the search path is tried.
AngleLookupFirstDirOnly(n, files) ==
    IF File(SearchPath[1], n) \in files THEN File(SearchPath[1], n) ELSE NotFound

AngleLookup(n, files) == AngleFrom(1, n, files)

\* The paths tried by <name>: each directory up to and including the hit.
AngleProbes(n, files) ==
    {File(SearchPath[i], n) : i \in
        {j \in 1..Len(SearchPath) :
            \A k \in 1..(j - 1) : File(SearchPath[k], n) \notin files}}

\* #include "/abs/dir/name": an absolute path is opened as it is, no search.
QuotedProbes(d, n, files) == {File(d, n)}
\* Variant: a quoted include that is not found is searched for like <name>.
QuotedLookupWithFallback(d, n, files) ==
    IF File(d, n) \in files THEN File(d, n) ELSE AngleLookup(n, files)

QuotedLookup(d, n, files) ==
    IF File(d, n) \in files THEN File(d, n) ELSE NotFound

\* What a FreeTDS header declares; the content belongs to the installation.
Decls(f) == {[header |-> f.name, from |-> f.dir]}

IsDefined(m, ms) == m \in ms
Define(m, ms) == ms \cup {m}

Failed == diag # <<>>
Running == ~Failed

\* An #include directive at `line` (0: in the unit) that resolved to `f`
\* after trying `tried`; a missing file is a fatal error.
DoInclude(line, n, f, tried) ==
    /\ probed' = probed \cup {[file |-> t, line |-> line] : t \in tried}
    /\ IF f = NotFound
       THEN /\ diag' = Append(diag, [line |-> line, name |-> n])
            /\ UNCHANGED <<included, decls>>
       ELSE /\ included' = Append(included, [file |-> f, line |-> line])
            /\ decls' = decls \cup Decls(f)
            /\ UNCHANGED diag

----------------------------------------------------------------------------
(* The translation unit *)

TU_IncludeShim ==
    /\ Running /\ pc = 0
    /\ shimIncludes < MaxIncludes
    /\ shimIncludes' = shimIncludes + 1
    /\ pc' = IF pragmaOnce /\ onceMarked THEN 0 ELSE 1
    /\ UNCHANGED <<fs, macros, pragmaOnce, onceMarked, copyDir, trace, included,
                   probed, decls, diag, otherIncludes>>

TU_IncludeOther ==
    /\ Running /\ pc = 0
    /\ otherIncludes < MaxOther
    /\ otherIncludes' = otherIncludes + 1
    /\ \E n \in Headers :
          DoInclude(0, n, AngleLookup(n, fs), AngleProbes(n, fs))
    /\ UNCHANGED <<fs, macros, pragmaOnce, onceMarked, copyDir, pc, trace,
                   shimIncludes>>

----------------------------------------------------------------------------
(* CFreeTDS.h, line by line *)

Step(line, next) ==
    /\ Running /\ pc = line
    /\ pc' = next
    /\ trace' = Append(trace, line)

\* Variant: the header without its include guard.
Line1_NoGuard ==
    /\ Step(1, 2)
    /\ UNCHANGED <<fs, macros, pragmaOnce, onceMarked, copyDir, included,
                   probed, decls, diag, shimIncludes, otherIncludes>>

\* 1: #ifndef CFREETDS_H  (a false condition skips to the #endif of line 14)
Line1_Ifndef ==
    /\ Step(1, IF IsDefined(Guard, macros) THEN 14 ELSE 2)
    /\ UNCHANGED <<fs, macros, pragmaOnce, onceMarked, copyDir, included,
                   probed, decls, diag, shimIncludes, otherIncludes>>

\* Variant: the header declares something of its own next to the guard.
Line2_DefineAndDeclare ==
    /\ Step(2, 4)
    /\ macros' = Define(Guard, macros)
    /\ decls' = decls \cup {[header |-> "CFreeTDS.h", from |-> ""]}
    /\ UNCHANGED <<fs, pragmaOnce, onceMarked, copyDir, included,
                   probed, diag, shimIncludes, otherIncludes>>

\* 2: #define CFREETDS_H
Line2_Define ==
    /\ Step(2, 4)
    /\ macros' = Define(Guard, macros)
    /\ UNCHANGED <<fs, pragmaOnce, onceMarked, copyDir, included,
                   probed, decls, diag, shimIncludes, otherIncludes>>

\* 4: #pragma once  (ignored by a compiler that does not know it)
Line4_PragmaOnce ==
    /\ Step(4, 6)
    /\ onceMarked' = pragmaOnce
    /\ UNCHANGED <<fs, macros, pragmaOnce, copyDir, included,
                   probed, decls, diag, shimIncludes, otherIncludes>>

\* Variant: the platform test inverted (#ifndef __APPLE__).
Line6_IfndefApple ==
    /\ Step(6, IF IsDefined(Apple, macros) THEN 10 ELSE 7)
    /\ UNCHANGED <<fs, macros, pragmaOnce, onceMarked, copyDir, included,
                   probed, decls, diag, shimIncludes, otherIncludes>>

\* 6: #ifdef __APPLE__  (a false condition skips to the group after #else)
Line6_IfdefApple ==
    /\ Step(6, IF IsDefined(Apple, macros) THEN 7 ELSE 10)
    /\ UNCHANGED <<fs, macros, pragmaOnce, onceMarked, copyDir, included,
                   probed, decls, diag, shimIncludes, otherIncludes>>

\* Variant: the two includes of each branch in the other order.
IncludeNameSwapped(line) == IF line \in {7, 10} THEN SybFront ELSE SybDb

\* The header named by the #include of a line.
IncludeName(line) == IF line \in {7, 10} THEN SybDb ELSE SybFront

\* #include "<dir>/<name>" at `line`; processing goes on at `next`.
Quoted(line, next, d) ==
    LET n == IncludeName(line)
        f == QuotedLookup(d, n, fs)
    IN /\ DoInclude(line, n, f, QuotedProbes(d, n, fs))
       /\ pc' = IF f = NotFound THEN pc ELSE next

\* #include <name> at `line`; processing goes on at `next`.
Angle(line, next) ==
    LET n == IncludeName(line)
        f == AngleLookup(n, fs)
    IN /\ DoInclude(line, n, f, AngleProbes(n, fs))
       /\ pc' = IF f = NotFound THEN pc ELSE next

\* 7: #include "/usr/local/opt/freetds/include/sybdb.h"
Line7_Include ==
    /\ Running /\ pc = 7
    /\ trace' = Append(trace, 7)
    /\ Quoted(7, 8, copyDir)
    /\ UNCHANGED <<fs, macros, pragmaOnce, onceMarked, copyDir,
                   shimIncludes, otherIncludes>>

\* 8: #include "/usr/local/opt/freetds/include/sybfront.h"
Line8_Include ==
    /\ Running /\ pc = 8
    /\ trace' = Append(trace, 8)
    /\ Quoted(8, 9, copyDir)
    /\ UNCHANGED <<fs, macros, pragmaOnce, onceMarked, copyDir,
                   shimIncludes, otherIncludes>>

\* Variant: #else does not end the taken group.
Line9_ElseFallsThrough ==
    /\ Step(9, 10)
    /\ UNCHANGED <<fs, macros, pragmaOnce, onceMarked, copyDir, included,
                   probed, decls, diag, shimIncludes, otherIncludes>>

\* 9: #else  (reached at the end of the taken group: skip to the #endif of line 12)
Line9_Else ==
    /\ Step(9, 12)
    /\ UNCHANGED <<fs, macros, pragmaOnce, onceMarked, copyDir, included,
                   probed, decls, diag, shimIncludes, otherIncludes>>

\* Variant: the #else branch names the hardcoded directory too.
Line10_IncludeHardcoded ==
    /\ Running /\ pc = 10
    /\ trace' = Append(trace, 10)
    /\ Quoted(10, 11, copyDir)
    /\ UNCHANGED <<fs, macros, pragmaOnce, onceMarked, copyDir,
                   shimIncludes, otherIncludes>>

\* 10: #include <sybdb.h>
Line10_Include ==
    /\ Running /\ pc = 10
    /\ trace' = Append(trace, 10)
    /\ Angle(10, 11)
    /\ UNCHANGED <<fs, macros, pragmaOnce, onceMarked, copyDir,
                   shimIncludes, otherIncludes>>

\* 11: #include <sybfront.h>
Line11_Include ==
    /\ Running /\ pc = 11
    /\ trace' = Append(trace, 11)
    /\ Angle(11, 12)
    /\ UNCHANGED <<fs, macros, pragmaOnce, onceMarked, copyDir,
                   shimIncludes, otherIncludes>>

\* 12: #endif
Line12_Endif ==
    /\ Step(12, 14)
    /\ UNCHANGED <<fs, macros, pragmaOnce, onceMarked, copyDir, included,
                   probed, decls, diag, shimIncludes, otherIncludes>>

\* 14: #endif /* CFREETDS_H */  (end of file: back to the including unit)
Line14_Endif ==
    /\ Step(14, 0)
    /\ UNCHANGED <<fs, macros, pragmaOnce, onceMarked, copyDir, included,
                   probed, decls, diag, shimIncludes, otherIncludes>>

----------------------------------------------------------------------------
(* Specifications *)

\* The macros the compiler predefines: __APPLE__ on Apple platforms only.
Predefined == {{}, {Apple}}

InitEnv ==
    /\ fs \in SUBSET Files
    /\ macros \in Predefined
    /\ pragmaOnce \in BOOLEAN
    /\ onceMarked = FALSE
    /\ pc = 0
    /\ trace = <<>>
    /\ included = <<>>
    /\ probed = {}
    /\ decls = {}
    /\ diag = <<>>
    /\ shimIncludes = 0
    /\ otherIncludes = 0

\* The header of this repository.
Init == InitEnv /\ copyDir = HomebrewDir

\* Either copy of the header: they differ in the hardcoded directory only.
InitCopies == InitEnv /\ copyDir \in {HomebrewDir, HomebrewDirOther}

Next ==
    \/ TU_IncludeShim
    \/ TU_IncludeOther
    \/ Line1_Ifndef
    \/ Line2_Define
    \/ Line4_PragmaOnce
    \/ Line6_IfdefApple
    \/ Line7_Include
    \/ Line8_Include
    \/ Line9_Else
    \/ Line10_Include
    \/ Line11_Include
    \/ Line12_Endif
    \/ Line14_Endif

Spec == Init /\ [][Next]_vars
SpecCopies == InitCopies /\ [][Next]_vars

----------------------------------------------------------------------------
(* Properties *)

OnApple == Apple \in macros
PathDirs == {SearchPath[i] : i \in 1..Len(SearchPath)}

\* What CFreeTDS.h itself (not the unit) included, probed and failed on.
ShimEntries == {i \in DOMAIN included : included[i].line # 0}
ShimFiles == {included[i].file : i \in ShimEntries}
ShimProbes == {p \in probed : p.line # 0}
ShimFailed == \E i \in DOMAIN diag : diag[i].line # 0
TraceLines == {trace[i] : i \in DOMAIN trace}

\* CFreeTDS.h has been entered and left again: a resolution that succeeded.
Resolved == trace # <<>> /\ pc = 0

\* FreeTDS is installed in directory d / somewhere on the search path.
InstalledAt(d) == \A n \in Headers : File(d, n) \in fs
InstalledOnPath == \A n \in Headers : \E d \in PathDirs : File(d, n) \in fs
\* The first directory of the search path holding n is d.
FirstOnPath(d, n) ==
    \E i \in 1..Len(SearchPath) :
        /\ SearchPath[i] = d
        /\ File(d, n) \in fs
        /\ \A k \in 1..(i - 1) : File(SearchPath[k], n) \notin fs

\* C1: the platform macro alone selects the location: with __APPLE__ defined
\* every header the shim includes is named by lines 7-8 and is the file of
\* /usr/local/opt/freetds/include; without it every header is named by lines
\* 10-11 and is the first hit on the system search path.  Whatever is
\* installed elsewhere does not change the selection.
C1_PlatformSelectsLocation ==
    /\ \A i \in ShimEntries :
          LET e == included[i] IN
          /\ e.file.name \in Headers
          /\ IF OnApple
             THEN /\ e.line \in {7, 8}
                  /\ e.file.dir = "/usr/local/opt/freetds/include"
             ELSE /\ e.line \in {10, 11}
                  /\ FirstOnPath(e.file.dir, e.file.name)
    /\ \A i \in DOMAIN diag :
          diag[i].line # 0 => (diag[i].line \in {7, 8} <=> OnApple)
    /\ Resolved => {f.name : f \in ShimFiles} = Headers

\* An Apple build that resolved although FreeTDS is also on the search path.
C1_Witness ==
    /\ OnApple /\ Resolved /\ InstalledOnPath
    /\ Cardinality(ShimEntries) = 2

\* FreeTDS is installed where this platform's branch looks for it.
Installed ==
    IF OnApple THEN InstalledAt(HomebrewDir) ELSE InstalledOnPath

\* C2: with FreeTDS installed at the platform's expected location the shim
\* never raises an error, and once it has been processed both sybdb.h and
\* sybfront.h have been found and included by it.
C2_InstalledResolves ==
    Installed =>
        /\ ~ShimFailed
        /\ pc \in {8, 9, 11, 12} => \E f \in ShimFiles : f.name = SybDb
        /\ (Resolved \/ pc \in {9, 12}) =>
               /\ \E f \in ShimFiles : f.name = SybDb
               /\ \E f \in ShimFiles : f.name = SybFront

\* A non-Apple build that resolved with the headers in the last directory of
\* the search path only.
C2_Witness ==
    /\ ~OnApple /\ Resolved /\ Running
    /\ \A n \in Headers : File(SearchPath[1], n) \notin fs
    /\ Cardinality(ShimEntries) = 2

\* C3: the shim fails exactly when a header is absent at the selected
\* location: a failure implies the absence, is the single diagnostic, comes
\* from a directive of the selected branch and stops processing there; a
\* resolution that completed implies both headers were present there.  A copy
\* at the other location does not rescue the build.
C3_ErrorIffAbsent ==
    /\ ShimFailed =>
          /\ ~Installed
          /\ Len(diag) = 1
          /\ diag[1].line = pc
          /\ trace[Len(trace)] = pc
          /\ diag[1].line \in (IF OnApple THEN {7, 8} ELSE {10, 11})
          /\ IF OnApple
             THEN File(HomebrewDir, diag[1].name) \notin fs
             ELSE \A d \in PathDirs : File(d, diag[1].name) \notin fs
    /\ (Resolved \/ pc \in {9, 12, 14}) => Installed

\* An Apple build that failed although both headers are on the search path.
C3_Witness ==
    /\ OnApple /\ ShimFailed
    /\ InstalledOnPath /\ ~InstalledAt(HomebrewDir)

\* C4: the shim adds nothing of its own: every visible declaration is one of
\* an included FreeTDS header, the only macro defined on top of the
\* predefined ones is CFREETDS_H, and after a successful resolution the files
\* the shim brought in are exactly the selected sybdb.h and sybfront.h.
C4_OnlyFreeTDSDeclarations ==
    /\ decls = UNION {Decls(included[i].file) : i \in DOMAIN included}
    /\ macros \ {Apple} \subseteq {Guard}
    /\ Resolved =>
          /\ Guard \in macros
          /\ Cardinality(ShimFiles) = 2
          /\ {f.name : f \in ShimFiles} = Headers
          /\ UNION {Decls(f) : f \in ShimFiles} \subseteq decls
    /\ otherIncludes = 0 => decls = UNION {Decls(f) : f \in ShimFiles}

\* A successful resolution with nothing else included: two declarations sets.
C4_Witness ==
    /\ Resolved /\ otherIncludes = 0
    /\ Cardinality(decls) = 2
    /\ macros \ {Apple} = {Guard}

\* C5: the two copies differ in the hardcoded directory only.  Without
\* __APPLE__ the outcome is a function of the search path's content, the same
\* for either copy: the files are the first hits on the search path and the
\* build fails exactly when a header is on no directory of it.  With
\* __APPLE__ the outcome is decided by the copy's own directory and nothing
\* else: the files come from it and the build fails exactly when a header is
\* missing from it.
C5_CopiesDifferInDirectoryOnly ==
    /\ \A f \in ShimFiles :
          IF OnApple THEN f.dir = copyDir ELSE FirstOnPath(f.dir, f.name)
    /\ \A p \in ShimProbes :
          IF OnApple THEN p.file.dir = copyDir ELSE p.file.dir \in PathDirs
    /\ ShimFailed =>
          IF OnApple THEN ~InstalledAt(copyDir) ELSE ~InstalledOnPath
    /\ (Resolved \/ pc \in {9, 12, 14}) =>
          /\ {f.name : f \in ShimFiles} = Headers
          /\ IF OnApple THEN InstalledAt(copyDir) ELSE InstalledOnPath

\* The other copy resolved on Apple where this repository's copy would fail.
C5_Witness ==
    /\ copyDir = HomebrewDirOther /\ OnApple /\ Resolved
    /\ InstalledAt(HomebrewDirOther) /\ ~InstalledAt(HomebrewDir)
    /\ Cardinality(ShimFiles) = 2

\* How often the body (the platform test of line 6) has been processed.
BodyRuns == Cardinality({i \in DOMAIN trace : trace[i] = 6})
\* A first inclusion has completed.
FirstDone == 14 \in TraceLines
\* A step of a #include "CFreeTDS.h": the directive itself or a line of the file.
ShimStep == pc # 0 \/ pc' # 0 \/ shimIncludes' # shimIncludes

\* C6: inclusion is idempotent.  The body is processed at most once, as the
\* fourth directive of the first inclusion, and exactly once as soon as
\* an inclusion has gone past the guard; every step of a later inclusion
\* leaves the included headers, the declarations, the macros and the
\* diagnostics as they are, and never enters the body.
C6_InclusionIdempotent ==
    /\ [](/\ BodyRuns <= 1
          /\ \A i \in DOMAIN trace : trace[i] = 6 => i = 4
          /\ (shimIncludes >= 1 /\ pc \notin {1, 2, 4, 6}) => BodyRuns = 1)
    /\ [][(FirstDone /\ ShimStep) =>
             /\ included' = included
             /\ decls' = decls
             /\ macros' = macros
             /\ diag' = diag
             /\ pc' \in {0, 1, 14}]_vars

\* Every inclusion done under a compiler without #pragma once, with a direct
\* include of a FreeTDS header among them: the body ran once.
C6_Witness ==
    /\ shimIncludes = MaxIncludes /\ pc = 0 /\ ~pragmaOnce
    /\ otherIncludes >= 1 /\ Running
    /\ BodyRuns = 1
    /\ Len(trace) > 9

\* C7: one branch per resolution.  Lines 7-8 and lines 10-11 are never both
\* processed, the shim's includes are all from the hardcoded directory or all
\* from the search path, and the location of the other branch is not even
\* probed: without __APPLE__ nothing under /usr/local/opt/freetds/include is
\* tried, with it nothing on the search path is.  A completed resolution took
\* exactly one branch.
C7_OneBranchOnly ==
    /\ ~(TraceLines \cap {7, 8} # {} /\ TraceLines \cap {10, 11} # {})
    /\ \/ \A i \in ShimEntries : included[i].line \in {7, 8}
                                    /\ included[i].file.dir = HomebrewDir
       \/ \A i \in ShimEntries : included[i].line \in {10, 11}
                                    /\ included[i].file.dir \in PathDirs
    /\ \A p \in ShimProbes :
          IF OnApple THEN p.file.dir = HomebrewDir /\ p.line \in {7, 8}
          ELSE p.file.dir \in PathDirs /\ p.line \in {10, 11}
    /\ FirstDone => (TraceLines \cap {7, 8} # {}) # (TraceLines \cap {10, 11} # {})
    /\ FirstDone => (TraceLines \cap {7, 8} = {7, 8} \/ TraceLines \cap {10, 11} = {10, 11})

\* A non-Apple build with FreeTDS under the hardcoded directory only: it fails
\* without having looked there.
C7_Witness ==
    /\ ~OnApple /\ InstalledAt(HomebrewDir) /\ ShimFailed
    /\ \A n \in Headers : \A d \in PathDirs : File(d, n) \notin fs
    /\ ShimProbes # {}

\* C8: sybdb.h comes first.  Every sybfront.h the shim includes is preceded
\* by a sybdb.h the shim included from the directive just above it, the
\* include of sybfront.h (lines 8, 11) is processed only right after that of
\* sybdb.h (lines 7, 10), and a failed sybdb.h leaves sybfront.h untouched.
C8_SybdbBeforeSybfront ==
    /\ \A i \in ShimEntries :
          included[i].file.name = SybFront =>
              \E j \in ShimEntries :
                  /\ j < i
                  /\ included[j].file.name = SybDb
                  /\ included[j].line + 1 = included[i].line
    /\ \A i \in DOMAIN trace :
          trace[i] \in {8, 11} => (i > 1 /\ trace[i - 1] + 1 = trace[i])
    /\ \A i \in DOMAIN diag :
          (diag[i].line # 0 /\ diag[i].name = SybDb) =>
              \A f \in ShimFiles : f.name # SybFront
    /\ \A p \in ShimProbes : p.file.name = SybFront =>
          \E f \in ShimFiles : f.name = SybDb

\* The unit included sybfront.h itself first, then the shim resolved.
C8_Witness ==
    /\ Resolved /\ Len(included) = 3
    /\ included[1].line = 0 /\ included[1].file.name = SybFront
    /\ included[2].file.name = SybDb /\ included[3].file.name = SybFront

====
